---- MODULE Spec2Model ----
(***************************************************************************)
(* win-pipe: the overlapped, multi-instance receiver and the reconnecting  *)
(* sender (src/unnamed/part_001), together with the part of the named-pipe *)
(* transport the two engines observe.                                      *)
(*                                                                         *)
(* Sizes are scaled: the staging buffer holds BufSize bytes instead of a   *)
(* multiple of 1024, messages are 1..MaxLen bytes long.                    *)
(***************************************************************************)
EXTENDS Integers, Sequences, FiniteSets, TLC

\* ------------------------------------------------------------------ bounds
MaxSends == 2
MaxPipes == 3
MaxRecv == 2
BufSize == 2
MaxLen == BufSize + 1
Senders == {1, 2}
Callbacks == {1, 2}

MaxShellCalls == 1

\* The scenarios explored: one sender, messages of every length, across
\* MaxRecv successive receivers; two senders competing for one receiver
\* with messages that fit the staging buffer; or no sender, accepts that
\* the system may abort, and a second receiver object that owns nothing
\* (default-constructed or moved-from) beside MaxRecv successive receivers.
Scenarios ==
    {[sends |-> [s \in Senders |-> IF s = 1 THEN MaxSends ELSE 0],
      lens |-> 1..MaxLen, recv |-> MaxRecv, shell |-> FALSE,
      abort |-> FALSE],
     [sends |-> [s \in Senders |-> IF s = 1 THEN MaxSends ELSE 1],
      lens |-> {1}, recv |-> 1, shell |-> FALSE, abort |-> FALSE],
     [sends |-> [s \in Senders |-> 0],
      lens |-> {1}, recv |-> MaxRecv, shell |-> TRUE, abort |-> TRUE]}

\* Values of a client handle that are not a pipe instance.
NullHandle == 0
InvalidHandleValue == 0 - 1

VARIABLES
    quota,       \* the scenario: send calls per sender, receiver lifetimes
    pipes,       \* OS: every pipe instance ever created under the name
    snd,         \* per sender: m_pipe, position, number of send calls, and
                 \* the receiver generation of its last successful write
    last,        \* per sender: trace of the sender's latest send call
    sent,        \* messages accepted by a successful WriteFile
    rstate,      \* receiver object: "none", "ctor", "alive", "dtor", "dead"
    gen,         \* number of receiver constructions so far
    ctor,        \* trace of the latest constructor call
    instances,   \* thread_param::instances
    events,      \* thread_param::events
    capacity,    \* instances.capacity()
    callback,    \* thread_param::callback
    stop_event,  \* thread_param::stop_event is signalled
    pc,          \* worker thread position
    index,       \* receiver::thread local
    bytes_read,  \* receiver::thread local
    newp,        \* create_instance local: the pipe just created
    running,     \* the callback invocation in progress, if any
    delivered,   \* every callback invocation so far
    stray,       \* a completion was written through a stale OVERLAPPED*
    lastAdd,     \* result of the latest add_pipe call
    postStop,    \* passes finished after the stop event was set
    hint,        \* receiver constructor argument buffer_size (a DWORD)
    sized,       \* the constructor has computed m_param->buffer_size
    buffer_size, \* thread_param::buffer_size (a DWORD)
    shell,       \* a receiver object whose m_param and m_thread are null
    brstate,     \* blocking receiver object: "none", "failed", "alive",
                 \* "set", "wait", "dead" (destructor position)
    bevent,      \* blocking receiver: thread_param::event is signalled
    bcancel,     \* CancelSynchronousIo has aborted the worker's blocking call
    bpc,         \* blocking receiver: worker thread position
    blink,       \* the single pipe instance: "none", "conn", "cliclosed"
    bq,          \* messages written to the instance and not yet read
    bbuf,        \* receiver::thread local buffer
    bbytes,      \* receiver::thread local bytes_read
    bdelivered,  \* callback invocations of the blocking receiver
    bcli         \* the client of the blocking receiver: handle and sends

\* The overlapped receiver, its senders and the pipe instances.
ovars == <<quota, pipes, snd, last, sent, rstate, gen, ctor, instances, events,
           capacity, callback, stop_event, pc, index, bytes_read, newp,
           running, delivered, stray, lastAdd, postStop>>

\* The staging-size computation of the constructor.
svars == <<hint, sized, buffer_size>>

\* What the actions of the overlapped receiver and its senders leave alone.
\* The receiver object that owns nothing.
hvars == <<shell>>

\* The blocking single-endpoint receiver (src/win-pipe.h) and its client.
bvars == <<brstate, bevent, bcancel, bpc, blink, bq, bbuf, bbytes, bdelivered,
           bcli>>

xvars == <<svars, hvars, bvars>>

vars == <<ovars, xvars>>

Min(S) == CHOOSE x \in S : \A y \in S : x <= y
MinNat(a, b) == IF a <= b THEN a ELSE b
MaxNat(a, b) == IF a >= b THEN a ELSE b

\* ------------------------------------------------------------- messages
\* The bytes of the k-th message of sender s, len bytes long.
Msg(s, k, len) == [j \in 1..len |-> 100 * s + 10 * k + j]

\* --------------------------------------------------------- OS transport
\* hcl and ecl count the CloseHandle calls made on the instance's pipe
\* handle and on its completion event.
NewPipe == [srv |-> TRUE, link |-> "none", q |-> <<>>, op |-> "none",
            ev |-> FALSE, cli |-> 0, fin |-> "none", hcl |-> 0, ecl |-> 0]

NoSlot == [pipe |-> 0, state |-> "connecting", pending |-> FALSE,
           buf |-> [j \in 1..BufSize |-> 0], ovl |-> "idle", ovln |-> 0,
           moved |-> FALSE]

SlotOf(ins, p) == CHOOSE i \in 1..Len(ins) : ins[i].pipe = p

\* Message-mode read of the head message of pipe p into a buffer of
\* Len(buf) bytes: the bytes that fit are copied, the rest stays queued.
ReadXfer(q, buf) ==
    LET m == Head(q)
        k == MinNat(Len(m), Len(buf))
    IN [buf |-> [j \in 1..Len(buf) |-> IF j <= k THEN m[j] ELSE buf[j]],
        q |-> IF Len(m) > k THEN <<SubSeq(m, k + 1, Len(m))>> \o Tail(q)
                            ELSE Tail(q),
        res |-> IF Len(m) > k THEN "more" ELSE "ok",
        n |-> k]

\* The kernel completes the overlapped operation outstanding on pipe p with
\* result res/n (and buffer contents buf for a read).  The status goes to
\* the address given when the operation was started; if the instance has
\* moved since, that is no longer the slot's OVERLAPPED.
Complete(ps, ins, p, res, n, buf) ==
    LET i == SlotOf(ins, p)
        s == ins[i]
    IN [ps |-> [ps EXCEPT ![p].op = "none", ![p].ev = TRUE, ![p].fin = res],
        ins |-> [ins EXCEPT ![i] =
                    IF s.moved THEN [s EXCEPT !.buf = buf]
                    ELSE [s EXCEPT !.buf = buf, !.ovl = res, !.ovln = n]],
        stray |-> s.moved]

Same(ps, ins) == [ps |-> ps, ins |-> ins, stray |-> FALSE]

\* WriteFile on the client end of pipe p.
ClientWrite(ps, ins, p, m) ==
    LET ps1 == [ps EXCEPT ![p].q = Append(@, m)]
    IN IF ps[p].op = "read"
       THEN LET x == ReadXfer(ps1[p].q, ins[SlotOf(ins, p)].buf)
            IN Complete([ps1 EXCEPT ![p].q = x.q], ins, p, x.res, x.n, x.buf)
       ELSE Same(ps1, ins)

\* CloseHandle on the client end held in h.
ClientClose(ps, ins, h) ==
    IF h < 1 THEN Same(ps, ins)
    ELSE IF ps[h].link # "conn" THEN Same(ps, ins)
    ELSE LET ps1 == [ps EXCEPT ![h].link = "cliclosed"]
         IN IF ps[h].op = "read"
            THEN Complete(ps1, ins, h, "err", 0, ins[SlotOf(ins, h)].buf)
            ELSE Same(ps1, ins)

\* Instances a CreateFile on the name can attach to.
Listening(ps) == {p \in 1..Len(ps) : ps[p].srv /\ ps[p].link = "none"}

\* CreateFileA on the pipe name by sender s: the handle it returns.
OpenHandle(ps) ==
    IF Listening(ps) = {} THEN InvalidHandleValue ELSE Min(Listening(ps))

ClientOpen(ps, ins, s) ==
    LET p == OpenHandle(ps)
    IN IF p < 1 THEN Same(ps, ins)
       ELSE LET ps1 == [ps EXCEPT ![p].link = "conn", ![p].cli = s]
            IN IF ps[p].op = "connect"
               THEN Complete(ps1, ins, p, "ok", 0, ins[SlotOf(ins, p)].buf)
               ELSE Same(ps1, ins)

\* The system completes the outstanding accept of pipe p with an error (the
\* operation is aborted) instead of a connection.
AcceptFails(p) ==
    /\ UNCHANGED xvars
    /\ quota.abort
    /\ p \in 1..Len(pipes)
    /\ pipes[p].op = "connect"
    /\ LET c == Complete(pipes, instances, p, "err", 0,
                         instances[SlotOf(instances, p)].buf)
       IN /\ pipes' = c.ps
          /\ instances' = c.ins
          /\ stray' = (stray \/ c.stray)
    /\ UNCHANGED <<quota, snd, last, sent, rstate, gen, ctor, events, capacity,
                   callback, stop_event, pc, index, bytes_read, newp, running,
                   delivered, lastAdd, postStop>>

\* GetLastError class of a WriteFile on handle h.
WriteErr(ps, h) ==
    IF h < 1 THEN "invalid"
    ELSE IF ps[h].link = "conn" /\ ps[h].srv THEN "ok"
    ELSE IF ps[h].link = "disc" THEN "notconn"
    ELSE "other"


\* ---------------------------------------------------------------- sender
\* sender::send, the switch on GetLastError(): the errors that reconnect.
RecoverableAny(e) == TRUE
Recoverable(e) == e \in {"invalid", "notconn"}

\* sender::send: FlushFileBuffers is reached exactly when a write succeeded.
SendFlushesAlways(ok) == TRUE
SendFlushes(ok) == ok

\* default: return false;  -- m_pipe after a first write that failed with
\* an error the switch does not list.
FailedHandleReset(h) == NullHandle
FailedHandle(h) == h

\* The channel name every sender is constructed on (sender::m_name).
ChannelName == "name"

\* The trace of a send call: the error class of the first write, the
\* numbers of writes and reconnects, whether a write succeeded, whether
\* FlushFileBuffers ran, the value returned, and where the receiver stood
\* when the call was made (its state, its generation, and the generation
\* that took this sender's previous successful write).
NoTrace == [e1 |-> "none", writes |-> 0, connects |-> 0, ok |-> FALSE,
            flushed |-> FALSE, ret |-> "none", at |-> "none", gen |-> 0,
            prev |-> 0]

\* sender::connect(): close m_pipe, then CreateFileA on the name.
Connect(ps, ins, s, h) ==
    LET c1 == ClientClose(ps, ins, h)
        c2 == ClientOpen(c1.ps, c1.ins, s)
    IN [ps |-> c2.ps, ins |-> c2.ins, stray |-> c1.stray \/ c2.stray,
        h |-> OpenHandle(c1.ps)]

\* sender::send(buffer, size) up to the point where it either returns false
\* or has written the message and enters FlushFileBuffers.
Send(s, len) ==
    /\ UNCHANGED xvars
    /\ snd[s].pc = "idle"
    /\ snd[s].n < quota.sends[s]
    /\ len \in quota.lens
    /\ LET h  == snd[s].h
           m  == Msg(s, snd[s].n + 1, len)
           e1 == WriteErr(pipes, h)
           c  == IF e1 # "ok" /\ Recoverable(e1)
                 THEN Connect(pipes, instances, s, h)
                 ELSE [ps |-> pipes, ins |-> instances, stray |-> FALSE,
                       h |-> IF e1 = "ok" THEN h ELSE FailedHandle(h)]
           nconn == IF e1 # "ok" /\ Recoverable(e1) THEN 1 ELSE 0
           e2 == IF nconn = 1 THEN WriteErr(c.ps, c.h) ELSE e1
           nwr == 1 + nconn
           ok == e2 = "ok"
           w  == IF ok THEN ClientWrite(c.ps, c.ins, c.h, m)
                 ELSE Same(c.ps, c.ins)
           tr == [e1 |-> e1, writes |-> nwr, connects |-> nconn, ok |-> ok,
                  flushed |-> FALSE, ret |-> "none", at |-> rstate,
                  gen |-> gen, prev |-> snd[s].okgen]
       IN /\ pipes' = w.ps
          /\ instances' = w.ins
          /\ stray' = (stray \/ c.stray \/ w.stray)
          /\ sent' = IF ok THEN Append(sent, [s |-> s, k |-> snd[s].n + 1,
                                              bytes |-> m, pipe |-> c.h,
                                              gen |-> gen])
                     ELSE sent
          /\ IF SendFlushes(ok)
             THEN /\ snd' = [snd EXCEPT ![s].h = c.h, ![s].pc = "flush",
                                       ![s].n = @ + 1,
                                       ![s].okgen = IF ok THEN gen ELSE @]
                  /\ last' = [last EXCEPT ![s] = tr]
             ELSE /\ snd' = [snd EXCEPT ![s].h = c.h, ![s].n = @ + 1,
                                       ![s].okgen = IF ok THEN gen ELSE @]
                  /\ last' = [last EXCEPT ![s] =
                                [tr EXCEPT !.ret = "false"]]
    /\ UNCHANGED <<quota, rstate, gen, ctor, events, capacity, callback,
                   stop_event, pc, index, bytes_read, newp, running, delivered, lastAdd,
                   postStop>>

\* FlushFileBuffers returns once the other end has read everything written,
\* or the connection is gone; send then returns true.
FlushDone(s) ==
    /\ UNCHANGED xvars
    /\ snd[s].pc = "flush"
    /\ LET h == snd[s].h
       IN h < 1 \/ pipes[h].q = <<>> \/ pipes[h].link # "conn"
    /\ snd' = [snd EXCEPT ![s].pc = "idle"]
    /\ last' = [last EXCEPT ![s].flushed = TRUE, ![s].ret = "true"]
    /\ UNCHANGED <<quota, pipes, sent, rstate, gen, ctor, instances, events,
                   capacity, callback, stop_event, pc, index, bytes_read,
                   newp, running, delivered, stray, lastAdd, postStop>>

\* The sender object is destroyed (its handle closed) and a fresh one is
\* constructed on the same name.
SenderClose(s) ==
    /\ UNCHANGED xvars
    /\ snd[s].pc = "idle"
    /\ snd[s].h >= 1
    /\ LET c == ClientClose(pipes, instances, snd[s].h)
       IN /\ pipes' = c.ps
          /\ instances' = c.ins
          /\ stray' = (stray \/ c.stray)
    /\ snd' = [snd EXCEPT ![s].h = NullHandle, ![s].okgen = 0]
    /\ UNCHANGED <<quota, last, sent, rstate, gen, ctor, events, capacity, callback,
                   stop_event, pc, index, bytes_read, newp, running,
                   delivered, lastAdd, postStop>>


\* -------------------------------------------------------------- receiver
\* std::vector growth when emplace_back finds size() = capacity(): the new
\* capacity is the library's choice (1.5x or 2x, at least size + 1).
\* No more than MaxPipes instances ever exist, so larger capacities behave
\* alike and are represented by MaxPipes.
GrowChoices(cap) ==
    {MinNat(MaxPipes, MaxNat(cap + 1, cap + cap \div 2)),
     MinNat(MaxPipes, MaxNat(cap + 1, 2 * cap))}

\* Moving an instance moves its OVERLAPPED; an operation the kernel still
\* has outstanding keeps the old address.
Relocated(ps, s) == IF ps[s.pipe].op # "none" THEN [s EXCEPT !.moved = TRUE]
                    ELSE s

RelocateAll(ps, ins) == [i \in 1..Len(ins) |-> Relocated(ps, ins[i])]

\* receiver::delete_instance: DisconnectNamedPipe, CloseHandle(hEvent), and
\* inst = {} closes the pipe handle.
DeleteInstance(ps, p) ==
    [ps EXCEPT ![p].srv = FALSE,
               ![p].link = IF @ \in {"conn", "cliclosed"} THEN "disc" ELSE @,
               ![p].q = <<>>, ![p].op = "none", ![p].ev = FALSE,
               ![p].hcl = @ + 1, ![p].ecl = @ + 1]

\* param->events.erase(param->events.begin() + index)
EraseLast(seq, i) == SubSeq(seq, 1, Len(seq) - 1)
EraseAt(seq, i) == SubSeq(seq, 1, i - 1) \o SubSeq(seq, i + 1, Len(seq))

\* receiver::remove_pipe(param, index)
RemovePipe(ps, ins, evs, i) ==
    LET ps1 == DeleteInstance(ps, ins[i].pipe)
    IN [ps |-> ps1,
        ins |-> SubSeq(ins, 1, i - 1)
                \o [j \in 1..(Len(ins) - i) |-> Relocated(ps1, ins[i + j])],
        evs |-> EraseAt(evs, i),
        stray |-> ps[ins[i].pipe].op # "none" /\ ins[i].moved]

RECURSIVE DeleteAll(_, _)
DeleteAll(ps, ins) ==
    IF ins = <<>> THEN ps
    ELSE DeleteAll(DeleteInstance(ps, Head(ins).pipe), Tail(ins))

\* receiver::create_instance, first half: CreateNamedPipeA and CreateEventA.
\* created says whether the OS made the instance.
CreatePipe(ps, created) == IF created THEN Append(ps, NewPipe) ELSE ps

\* Whether the OS can still create an instance in this model.
CanCreate(ps) == Len(ps) < MaxPipes

\* if (ConnectNamedPipe(...) || GetLastError() != ERROR_IO_PENDING)
\*     return std::nullopt;
\* The overlapped accept on instance p pends exactly while no client has
\* attached to p.
AcceptPendingAlways(ps, p) == TRUE
AcceptPending(ps, p) == ps[p].link = "none"

\* receiver::create_instance, second half, and receiver::add_pipe:
\* ConnectNamedPipe on the new instance p; only ERROR_IO_PENDING yields a
\* slot, which is moved out of the local into the vector.
AddPipe(ps, ins, evs, cap, p, newcap) ==
    IF ~AcceptPending(ps, p)
    THEN \* ERROR_PIPE_CONNECTED: nullopt; the local's unique_handle closes
         \* the pipe, nothing closes the raw overlap.hEvent
         [ps |-> [ps EXCEPT ![p].srv = FALSE, ![p].link = "srvclosed",
                            ![p].q = <<>>, ![p].hcl = @ + 1],
          ins |-> ins, evs |-> evs, cap |-> cap, ok |-> FALSE]
    ELSE LET ps1 == [ps EXCEPT ![p].op = "connect"]
             slot == [NoSlot EXCEPT !.pipe = p, !.pending = TRUE,
                                    !.ovl = "pending", !.moved = TRUE]
             grow == Len(ins) = cap
         IN [ps |-> ps1,
             ins |-> Append(IF grow THEN RelocateAll(ps, ins) ELSE ins, slot),
             evs |-> Append(evs, p),
             cap |-> IF grow THEN newcap ELSE cap,
             ok |-> TRUE]

\* while (WaitForSingleObject(stop_event, 0) == WAIT_TIMEOUT)
StopIgnored == FALSE
StopSignalled == stop_event

\* std::lock_guard on callback_mutex: the lock is held by the worker for the
\* whole of a callback invocation.
CallbackLockIgnored == TRUE
CallbackLockFree == running = <<>>

NoCtor == [created |-> FALSE, added |-> FALSE, raised |-> FALSE,
           started |-> FALSE]

\* receiver::receiver(name, buffer_size, callback), up to CreateNamedPipeA
\* inside add_pipe/create_instance.
CtorCreate(cb, created) ==
    /\ UNCHANGED xvars
    /\ cb = Min(Callbacks)
    /\ rstate \in {"none", "dead"}
    /\ gen < quota.recv
    /\ created => CanCreate(pipes)
    /\ gen' = gen + 1
    /\ callback' = cb
    /\ stop_event' = FALSE
    /\ instances' = <<>>
    /\ events' = <<>>
    /\ capacity' = 0
    /\ pipes' = CreatePipe(pipes, created)
    /\ newp' = IF created THEN Len(pipes) + 1 ELSE 0
    /\ rstate' = "ctor"
    /\ ctor' = [NoCtor EXCEPT !.created = created]
    /\ pc' = "off"
    /\ index' = 0
    /\ bytes_read' = 0
    /\ running' = <<>>
    /\ postStop' = 0
    /\ lastAdd' = FALSE
    /\ UNCHANGED <<quota, snd, last, sent, delivered, stray>>

\* The rest of the constructor: ConnectNamedPipe and emplace_back in
\* add_pipe (its result is not looked at), then CreateThread.
CtorFinish ==
    /\ UNCHANGED xvars
    /\ rstate = "ctor"
    /\ IF newp = 0
       THEN UNCHANGED <<pipes, instances, events, capacity, lastAdd>>
       ELSE \E nc \in GrowChoices(capacity) :
              LET a == AddPipe(pipes, instances, events, capacity, newp, nc)
              IN /\ pipes' = a.ps
                 /\ instances' = a.ins
                 /\ events' = a.evs
                 /\ capacity' = a.cap
                 /\ lastAdd' = a.ok
    /\ ctor' = [ctor EXCEPT !.added = lastAdd', !.started = TRUE]
    /\ newp' = 0
    /\ pc' = "check"
    /\ rstate' = "alive"
    /\ UNCHANGED <<quota, snd, last, sent, gen, callback, stop_event, index,
                   bytes_read, running, delivered, stray, postStop>>

\* receiver::set_callback
SetCallback(cb) ==
    /\ UNCHANGED xvars
    /\ rstate = "alive"
    /\ cb # callback
    /\ CallbackLockFree
    /\ callback' = cb
    /\ UNCHANGED <<quota, pipes, snd, last, sent, rstate, gen, ctor, instances,
                   events, capacity, stop_event, pc, index, bytes_read, newp,
                   running, delivered, stray, lastAdd, postStop>>

\* receiver::~receiver: SetEvent(stop_event), CancelSynchronousIo, then the
\* wait for the worker begins.
DtorBegin ==
    /\ UNCHANGED xvars
    /\ rstate = "alive"
    /\ stop_event' = TRUE
    /\ rstate' = "dtor"
    /\ UNCHANGED <<quota, pipes, snd, last, sent, gen, ctor, instances, events,
                   capacity, callback, pc, index, bytes_read, newp, running,
                   delivered, stray, lastAdd, postStop>>

\* WaitForSingleObject(m_thread.get(), INFINITE) returns when the worker
\* thread has ended.
JoinedAlways == TRUE
Joined == pc = "done"

\* WaitForSingleObject(m_thread, INFINITE) returns; m_param is destroyed.
DtorJoin ==
    /\ UNCHANGED xvars
    /\ rstate = "dtor"
    /\ Joined
    /\ rstate' = "dead"
    /\ pc' = "off"
    /\ UNCHANGED <<quota, pipes, snd, last, sent, gen, ctor, instances, events,
                   capacity, callback, stop_event, index, bytes_read, newp,
                   running, delivered, stray, lastAdd, postStop>>


\* ---------------------------------------------------------- worker thread
\* The end of one pass of the multiplexer loop: back to the loop condition.
PassEndAt(next) ==
    /\ pc' = next
    /\ postStop' = IF stop_event THEN MinNat(postStop + 1, 2) ELSE postStop

PassEnd == PassEndAt("check")

\* remove_pipe(param, index); continue;  -- where the worker goes after it
\* has discarded a slot.
AfterRemoveExits == "clear"
AfterRemove == "check"

\* The loop condition of receiver::thread.
WorkerCheck ==
    /\ UNCHANGED xvars
    /\ pc = "check"
    /\ pc' = IF StopSignalled THEN "clear" ELSE "wait"
    /\ UNCHANGED <<quota, pipes, snd, last, sent, rstate, gen, ctor, instances,
                   events, capacity, callback, stop_event, index, bytes_read,
                   newp, running, delivered, stray, lastAdd, postStop>>

\* Indices WaitForMultipleObjects can return: the signalled events.
Signalled == {i \in 1..Len(events) : pipes[events[i]].ev}

\* GetOverlappedResult(..., FALSE) on slot s: the status found in the slot's
\* OVERLAPPED, and the byte count it stores.
OverlappedBytes(s, old) ==
    IF s.ovl \in {"ok", "more"} THEN s.ovln
    ELSE IF s.ovl = "err" THEN 0 ELSE old

\* case pipe_state::connecting: the state the slot is given when its accept
\* has completed.
AcceptedStateStays == "connecting"
AcceptedState == "reading"

\* case pipe_state::reading: inst->state = pipe_state::sending;  -- the
\* state a slot is given when its read is found completed.
CompletedStateConnecting == "connecting"
CompletedState == "sending"

\* if (inst->pending) { GetOverlappedResult; switch (inst->state) ... }
\* for the slot at index i; created is the outcome of CreateNamedPipeA in
\* the add_pipe call of the connecting case.
Dispatch(i, created) ==
    LET s == instances[i]
        success == s.ovl = "ok"
        base == [ps |-> pipes, ins |-> instances, evs |-> events,
                 next |-> "second", newp |-> 0, br |-> bytes_read,
                 stray |-> FALSE, la |-> lastAdd]
    IN IF ~s.pending THEN base
       ELSE CASE s.state = "connecting" ->
                   [base EXCEPT !.ps = CreatePipe(pipes, created),
                                !.ins = [instances EXCEPT
                                           ![i].state = AcceptedState],
                                !.next = IF created THEN "add" ELSE "second",
                                !.newp = IF created THEN Len(pipes) + 1 ELSE 0,
                                !.br = OverlappedBytes(s, bytes_read),
                                !.la = IF created THEN lastAdd ELSE FALSE]
              [] s.state = "reading" ->
                   [base EXCEPT !.ins = IF ~success /\ s.ovl # "more"
                                        THEN instances
                                        ELSE [instances EXCEPT
                                                ![i].state = CompletedState],
                                !.br = OverlappedBytes(s, bytes_read)]
              [] OTHER ->
                   LET r == RemovePipe(pipes, instances, events, i)
                   IN [base EXCEPT !.ps = r.ps, !.ins = r.ins, !.evs = r.evs,
                                   !.next = AfterRemove, !.stray = r.stray,
                                   !.br = OverlappedBytes(s, bytes_read)]

\* WaitForMultipleObjects and the first switch of the pass.
WorkerWait(created) ==
    /\ UNCHANGED xvars
    /\ pc = "wait"
    /\ created => CanCreate(pipes)
    /\ IF Signalled = {}
       THEN /\ PassEnd
            /\ UNCHANGED <<pipes, instances, events, index, bytes_read, newp,
                           stray, lastAdd>>
       ELSE LET i == Min(Signalled)
                d == Dispatch(i, created)
            IN /\ index' = i
               /\ pipes' = d.ps
               /\ instances' = d.ins
               /\ events' = d.evs
               /\ newp' = d.newp
               /\ bytes_read' = d.br
               /\ stray' = (stray \/ d.stray)
               /\ lastAdd' = d.la
               /\ IF d.next \in {"add", "second"}
                  THEN pc' = d.next /\ UNCHANGED postStop
                  ELSE PassEndAt(d.next)
    /\ UNCHANGED <<quota, snd, last, sent, rstate, gen, ctor, capacity, callback,
                   stop_event, running, delivered>>

\* add_pipe(param) of the connecting case, from ConnectNamedPipe on.
WorkerAdd(newcap) ==
    /\ UNCHANGED xvars
    /\ pc = "add"
    /\ LET a == AddPipe(pipes, instances, events, capacity, newp, newcap)
       IN /\ pipes' = a.ps
          /\ instances' = a.ins
          /\ events' = a.evs
          /\ capacity' = a.cap
          /\ lastAdd' = a.ok
    /\ newp' = 0
    /\ pc' = "second"
    /\ UNCHANGED <<quota, snd, last, sent, rstate, gen, ctor, callback, stop_event,
                   index, bytes_read, running, delivered, stray, postStop>>

\* The byte count ReadFile stores when it returns FALSE with
\* ERROR_MORE_DATA on an overlapped handle: zeroed on entry, and documented
\* as unreliable when an OVERLAPPED is passed.
MoreDataBytes(n) == {0, n}

\* What the callback receives: buffer.data() and bytes_read.
Invocation(s, n) ==
    [cb |-> callback, pipe |-> s.pipe, from |-> pipes[s.pipe].cli,
     data |-> SubSeq(s.buf, 1, n), n |-> n]

\* The entry the invocation leaves in the log of deliveries.
Logged(v) == [pipe |-> v.pipe, from |-> v.from, data |-> v.data, n |-> v.n]

\* The second switch of the pass, up to the point where the callback has
\* been entered (under callback_mutex) or the pass is over.
WorkerSecond ==
    /\ UNCHANGED xvars
    /\ pc = "second"
    /\ LET s == instances[index]
           p == s.pipe
       IN CASE s.state = "reading" /\ pipes[p].q # <<>> ->
                 \* ReadFile completes at once: TRUE or ERROR_MORE_DATA
                 LET x == ReadXfer(pipes[p].q, s.buf)
                     s1 == [s EXCEPT !.buf = x.buf, !.ovl = x.res,
                                     !.ovln = x.n, !.moved = FALSE,
                                     !.pending = FALSE]
                 IN \E b \in (IF x.res = "more" THEN MoreDataBytes(x.n)
                              ELSE {x.n}) :
                      /\ pipes' = [pipes EXCEPT ![p].q = x.q, ![p].ev = TRUE]
                      /\ instances' = [instances EXCEPT ![index] = s1]
                      /\ bytes_read' = b
                      /\ running' = <<Invocation(s1, b)>>
                      /\ delivered' = Append(delivered, Logged(Invocation(s1, b)))
                      /\ pc' = "cb"
                      /\ UNCHANGED <<events, stray, postStop>>
            [] s.state = "reading" /\ pipes[p].q = <<>>
                                   /\ pipes[p].link = "conn" ->
                 \* ERROR_IO_PENDING
                 /\ pipes' = [pipes EXCEPT ![p].op = "read", ![p].ev = FALSE]
                 /\ instances' = [instances EXCEPT ![index].pending = TRUE,
                                                   ![index].ovl = "pending",
                                                   ![index].moved = FALSE]
                 /\ bytes_read' = 0
                 /\ PassEnd
                 /\ UNCHANGED <<events, running, delivered, stray>>
            [] s.state = "reading" /\ pipes[p].q = <<>>
                                   /\ pipes[p].link # "conn" ->
                 \* any other error: remove_pipe
                 LET r == RemovePipe(pipes, instances, events, index)
                 IN /\ pipes' = r.ps
                    /\ instances' = r.ins
                    /\ events' = r.evs
                    /\ stray' = (stray \/ r.stray)
                    /\ bytes_read' = 0
                    /\ PassEndAt(AfterRemove)
                    /\ UNCHANGED <<running, delivered>>
            [] s.state = "sending" ->
                 /\ running' = <<Invocation(s, bytes_read)>>
                 /\ delivered' = Append(delivered,
                                       Logged(Invocation(s, bytes_read)))
                 /\ pc' = "cb"
                 /\ UNCHANGED <<pipes, instances, events, bytes_read, stray,
                                postStop>>
            [] OTHER ->
                 /\ PassEnd
                 /\ UNCHANGED <<pipes, instances, events, bytes_read,
                                running, delivered, stray>>
    /\ UNCHANGED <<quota, snd, last, sent, rstate, gen, ctor, capacity, callback,
                   stop_event, index, newp, lastAdd>>

\* inst->state = pipe_state::reading after the callback.
DeliveredStateStays == "sending"
DeliveredState == "reading"

\* inst->pending = false; inst->state = pipe_state::reading;  -- inst is
\* the slot at index, and no other slot is written.
AfterCallbackAll(ins, i) ==
    [j \in 1..Len(ins) |-> [ins[j] EXCEPT !.pending = FALSE,
                                          !.state = DeliveredState]]
AfterCallback(ins, i) ==
    [ins EXCEPT ![i].pending = FALSE, ![i].state = DeliveredState]

\* The callback returns; the lock is released and the slot goes back to
\* reading.
WorkerCbReturn ==
    /\ UNCHANGED xvars
    /\ pc = "cb"
    /\ running' = <<>>
    /\ instances' = AfterCallback(instances, index)
    /\ PassEnd
    /\ UNCHANGED <<quota, pipes, snd, last, sent, rstate, gen, ctor, events,
                   capacity, callback, stop_event, index, bytes_read, newp,
                   delivered, stray, lastAdd>>

\* clear_pipes(param); return TRUE;
WorkerClear ==
    /\ UNCHANGED xvars
    /\ pc = "clear"
    /\ pipes' = DeleteAll(pipes, instances)
    /\ stray' = (stray \/ \E i \in 1..Len(instances) :
                            /\ pipes[instances[i].pipe].op # "none"
                            /\ instances[i].moved)
    /\ instances' = <<>>
    /\ events' = <<>>
    /\ pc' = "done"
    /\ UNCHANGED <<quota, snd, last, sent, rstate, gen, ctor, capacity, callback,
                   stop_event, index, bytes_read, newp, running, delivered,
                   lastAdd, postStop>>

\* ------------------------------------------- the receiver owning nothing
\* receiver() = default, and the source of receiver(receiver&&): m_param
\* and m_thread hold nothing.
ShellKeepsParam == TRUE
ShellHasParam == FALSE

ShellHasThread == FALSE

NoShell == [st |-> "none", how |-> "none", calls |-> 0]

InitShell == shell = NoShell

\* receiver() = default
ShellDefault ==
    /\ quota.shell
    /\ shell.st = "none"
    /\ shell' = [shell EXCEPT !.st = "empty", !.how = "default"]
    /\ UNCHANGED <<ovars, svars, bvars>>

\* receiver(receiver&&) = default, seen from its source: the running
\* receiver's m_param and m_thread go to the new object, which is the
\* receiver from then on.
ShellMove ==
    /\ quota.shell
    /\ shell.st = "none"
    /\ rstate = "alive"
    /\ shell' = [shell EXCEPT !.st = "empty", !.how = "moved"]
    /\ UNCHANGED <<ovars, svars, bvars>>

\* receiver::set_callback on the object owning nothing.
ShellSetCallback(cb) ==
    /\ shell.st = "empty"
    /\ shell.calls < MaxShellCalls
    /\ ShellHasParam => CallbackLockFree
    /\ callback' = IF ShellHasParam THEN cb ELSE callback
    /\ shell' = [shell EXCEPT !.calls = @ + 1]
    /\ UNCHANGED <<quota, pipes, snd, last, sent, rstate, gen, ctor, instances,
                   events, capacity, stop_event, pc, index, bytes_read, newp,
                   running, delivered, stray, lastAdd, postStop, svars,
                   bvars>>

\* receiver::~receiver on the object owning nothing: SetEvent is skipped,
\* CancelSynchronousIo and WaitForSingleObject on a null handle fail at
\* once.
ShellDestroy ==
    /\ shell.st = "empty"
    /\ ShellHasThread => pc = "done"
    /\ stop_event' = IF ShellHasParam THEN TRUE ELSE stop_event
    /\ shell' = [shell EXCEPT !.st = "gone"]
    /\ UNCHANGED <<quota, pipes, snd, last, sent, rstate, gen, ctor, instances,
                   events, capacity, callback, pc, index, bytes_read, newp,
                   running, delivered, stray, lastAdd, postStop, svars,
                   bvars>>

\* ------------------------------------------------------ move assignment
\* ~thread_param run by std::unique_ptr: every instance of the pool is
\* destroyed, its unique_handle closing the pipe (no DisconnectNamedPipe,
\* no CloseHandle on the event).
RECURSIVE DestroyAll(_, _)
DestroyAll(ps, ins) ==
    IF ins = <<>> THEN ps
    ELSE DestroyAll([ps EXCEPT ![Head(ins).pipe].srv = FALSE,
                               ![Head(ins).pipe].link =
                                   IF @ = "none" THEN @ ELSE "srvclosed",
                               ![Head(ins).pipe].q = <<>>,
                               ![Head(ins).pipe].op = "none",
                               ![Head(ins).pipe].hcl = @ + 1],
                    Tail(ins))

\* receiver& operator=(receiver&&) noexcept = default: what the assignment
\* does to the worker of its target before m_param and m_thread are
\* overwritten.  The defaulted operator does nothing to it: it neither
\* sets the stop event nor waits for the thread.
AssignJoins == FALSE

\* The thread_param the worker was started with has been destroyed.
ParamDestroyed == rstate \in {"dead", "assigned"}

\* thread_param was destroyed under a worker that has not ended: every
\* further step of that worker is undefined and is not followed.
Freed == ParamDestroyed /\ pc \notin {"off", "done"}

\* running = std::move(empty): memberwise move assignment onto the running
\* receiver from the object owning nothing.  m_param's old thread_param is
\* deleted and the old thread handle closed.
MoveAssignOntoRunning ==
    /\ quota.shell
    /\ shell.st = "empty"
    /\ rstate = "alive"
    /\ AssignJoins => pc = "done"
    /\ rstate' = "assigned"
    /\ stop_event' = (stop_event \/ AssignJoins)
    /\ pipes' = DestroyAll(pipes, instances)
    /\ instances' = <<>>
    /\ events' = <<>>
    /\ shell' = [shell EXCEPT !.how = "source"]
    /\ UNCHANGED <<quota, snd, last, sent, gen, ctor, capacity, callback, pc,
                   index, bytes_read, newp, running, delivered, stray, lastAdd,
                   postStop, svars, bvars>>

\* receiver::~receiver on the receiver that was assigned onto: m_param and
\* m_thread hold nothing, so SetEvent is skipped and the wait on the null
\* handle returns at once.
DtorAssigned ==
    /\ rstate = "assigned"
    /\ rstate' = "dead"
    /\ UNCHANGED <<quota, pipes, snd, last, sent, gen, ctor, instances, events,
                   capacity, callback, stop_event, pc, index, bytes_read, newp,
                   running, delivered, stray, lastAdd, postStop, xvars>>

\* empty = std::move(running): move assignment onto the object owning
\* nothing; m_param and m_thread change hands, the object that was running
\* now owns nothing.
MoveAssignOntoEmpty ==
    /\ quota.shell
    /\ shell.st = "empty"
    /\ shell.how # "target"
    /\ rstate = "alive"
    /\ shell' = [shell EXCEPT !.how = "target"]
    /\ UNCHANGED <<ovars, svars, bvars>>

\* --------------------------------- the blocking single-endpoint receiver
InitBlock ==
    /\ brstate = "none"
    /\ bevent = FALSE
    /\ bcancel = FALSE
    /\ bpc = "off"
    /\ blink = "none"
    /\ bq = <<>>
    /\ bbuf = [j \in 1..BufSize |-> 0]
    /\ bbytes = 0
    /\ bdelivered = <<>>
    /\ bcli = [h |-> "none", n |-> 0]

\* receiver::receiver(name, callback) of the blocking receiver: a failed
\* CreateNamedPipeA throws; otherwise the event is created and the worker
\* started.
BCtor(created) ==
    /\ brstate = "none"
    /\ brstate' = IF created THEN "alive" ELSE "failed"
    /\ bpc' = IF created THEN "check1" ELSE "off"
    /\ UNCHANGED <<ovars, svars, hvars, bevent, bcancel, blink, bq, bbuf,
                   bbytes, bdelivered, bcli>>

\* The instance exists (m_param->pipe is open) and no client holds it.
BListening == brstate \in {"alive", "set", "wait"} /\ blink = "none"

\* sender::send of the client: WriteFile, and on an invalid or disconnected
\* handle one connect() and one more WriteFile.
BSend(len) ==
    /\ bcli.n < MaxSends
    /\ LET live == bcli.h = "conn" /\ blink = "conn"
                   /\ brstate \in {"alive", "set", "wait"}
           retry == ~live /\ bcli.h \in {"none", "stale"}
           opens == retry /\ BListening
           ok == live \/ opens
       IN /\ bcli' = [h |-> IF ok THEN "conn"
                            ELSE IF retry THEN "none" ELSE bcli.h,
                      n |-> bcli.n + 1]
          /\ blink' = IF opens THEN "conn" ELSE blink
          /\ bq' = IF ok THEN Append(bq, Msg(1, bcli.n + 1, len)) ELSE bq
    /\ UNCHANGED <<ovars, svars, hvars, brstate, bevent, bcancel, bpc, bbuf,
                   bbytes, bdelivered>>

\* The client closes its handle.
BClientClose ==
    /\ bcli.h = "conn"
    /\ bcli' = [bcli EXCEPT !.h = "none"]
    /\ blink' = IF blink = "conn" THEN "cliclosed" ELSE blink
    /\ UNCHANGED <<ovars, svars, hvars, brstate, bevent, bcancel, bpc, bq,
                   bbuf, bbytes, bdelivered>>

\* receiver::~receiver: SetEvent(m_param->event.get())
BDtorSet ==
    /\ brstate = "alive"
    /\ brstate' = "set"
    /\ bevent' = TRUE
    /\ UNCHANGED <<ovars, svars, hvars, bcancel, bpc, blink, bq, bbuf, bbytes,
                   bdelivered, bcli>>

\* The worker is inside a blocking call.
BBlocked == bpc \in {"connecting", "reading"}

\* CancelSynchronousIo(m_thread.get()): aborts the synchronous call the
\* worker is blocked in at this moment, if there is one; otherwise it finds
\* nothing to cancel.
CancelHits == BBlocked

BDtorCancel ==
    /\ brstate = "set"
    /\ brstate' = "wait"
    /\ bcancel' = CancelHits
    /\ UNCHANGED <<ovars, svars, hvars, bevent, bpc, blink, bq, bbuf, bbytes,
                   bdelivered, bcli>>

\* WaitForSingleObject(m_thread.get(), INFINITE) returns; the members are
\* destroyed, which closes the pipe.
BDtorJoin ==
    /\ brstate = "wait"
    /\ bpc = "done"
    /\ brstate' = "dead"
    /\ bpc' = "off"
    /\ blink' = "none"
    /\ bq' = <<>>
    /\ bcli' = [bcli EXCEPT !.h = IF @ = "conn" THEN "stale" ELSE @]
    /\ UNCHANGED <<ovars, svars, hvars, bevent, bcancel, bbuf, bbytes,
                   bdelivered>>

\* while (WaitForSingleObject(event, 1) == WAIT_TIMEOUT)  -- outer loop
BCheck1 ==
    /\ bpc = "check1"
    /\ bpc' = IF bevent THEN "done" ELSE "connect"
    /\ UNCHANGED <<ovars, svars, hvars, brstate, bevent, bcancel, blink, bq,
                   bbuf, bbytes, bdelivered, bcli>>

\* ConnectNamedPipe(pipe, NULL) is entered: it returns at once when a
\* client is or was attached, and blocks otherwise.
BConnectEnter ==
    /\ bpc = "connect"
    /\ bpc' = IF blink = "none" /\ ~bcancel THEN "connecting" ELSE "check2"
    /\ bcancel' = FALSE
    /\ UNCHANGED <<ovars, svars, hvars, brstate, bevent, blink, bq, bbuf,
                   bbytes, bdelivered, bcli>>

\* The blocked ConnectNamedPipe returns: a client attached, or the call was
\* cancelled.
BConnectReturn ==
    /\ bpc = "connecting"
    /\ blink # "none" \/ bcancel
    /\ bpc' = "check2"
    /\ bcancel' = FALSE
    /\ UNCHANGED <<ovars, svars, hvars, brstate, bevent, blink, bq, bbuf,
                   bbytes, bdelivered, bcli>>

\* while (WaitForSingleObject(event, 1) == WAIT_TIMEOUT)  -- inner loop
BCheck2 ==
    /\ bpc = "check2"
    /\ bpc' = IF bevent THEN "disconnect" ELSE "read"
    /\ UNCHANGED <<ovars, svars, hvars, brstate, bevent, bcancel, blink, bq,
                   bbuf, bbytes, bdelivered, bcli>>

\* ReadFile into buffer; on ERROR_MORE_DATA PeekNamedPipe gives the bytes
\* left in the message, buffer.resize(bytes_read + leftover), and a second
\* ReadFile reads them to buffer.data() + bytes_read.
BlockingRead(q, buf) ==
    LET x == ReadXfer(q, buf)
        rest == Head(x.q)
        leftover == Len(rest)
    IN IF x.res = "more"
       THEN [buf |-> [j \in 1..(x.n + leftover) |->
                         IF j <= x.n THEN x.buf[j] ELSE rest[j - x.n]],
             n |-> x.n + leftover, q |-> Tail(x.q), first |-> x.n,
             grown |-> TRUE]
       ELSE [buf |-> x.buf, n |-> x.n, q |-> x.q, first |-> x.n,
             grown |-> FALSE]

\* The state after ReadFile has data: the callback is entered.
BDeliver ==
    LET r == BlockingRead(bq, bbuf)
    IN /\ bq' = r.q
       /\ bbuf' = r.buf
       /\ bbytes' = r.n
       /\ bdelivered' = Append(bdelivered,
                               [data |-> SubSeq(r.buf, 1, r.n), n |-> r.n,
                                first |-> r.first, grown |-> r.grown,
                                size |-> Len(r.buf)])
       /\ bpc' = "cb"

\* ReadFile(pipe, ...) is entered: it returns at once with data or with an
\* error, and blocks while the attached client has written nothing.
BReadEnter ==
    /\ bpc = "read"
    /\ IF bq # <<>> /\ ~bcancel
       THEN BDeliver
       ELSE /\ bpc' = IF blink = "conn" /\ ~bcancel THEN "reading"
                      ELSE "disconnect"
            /\ UNCHANGED <<bq, bbuf, bbytes, bdelivered>>
    /\ bcancel' = FALSE
    /\ UNCHANGED <<ovars, svars, hvars, brstate, bevent, blink, bcli>>

\* The blocked ReadFile returns: data arrived, the client went away, or the
\* call was cancelled.
BReadReturn ==
    /\ bpc = "reading"
    /\ bq # <<>> \/ blink # "conn" \/ bcancel
    /\ IF bq # <<>> /\ ~bcancel
       THEN BDeliver
       ELSE /\ bpc' = "disconnect"
            /\ UNCHANGED <<bq, bbuf, bbytes, bdelivered>>
    /\ bcancel' = FALSE
    /\ UNCHANGED <<ovars, svars, hvars, brstate, bevent, blink, bcli>>

\* callback(buffer.data(), bytes_read) returns.
BCbReturn ==
    /\ bpc = "cb"
    /\ bpc' = "check2"
    /\ UNCHANGED <<ovars, svars, hvars, brstate, bevent, bcancel, blink, bq,
                   bbuf, bbytes, bdelivered, bcli>>

\* DisconnectNamedPipe(pipe): the client's handle goes stale, unread data
\* is discarded, the instance can be connected to again.
BDisconnect ==
    /\ bpc = "disconnect"
    /\ bpc' = "check1"
    /\ blink' = "none"
    /\ bq' = <<>>
    /\ bcli' = [bcli EXCEPT !.h = IF @ = "conn" THEN "stale" ELSE @]
    /\ UNCHANGED <<ovars, svars, hvars, brstate, bevent, bcancel, bbuf,
                   bbytes, bdelivered>>

\* ------------------------------------------------------- staging size
\* A DWORD v is held as v.hi * Kilo + v.lo with 0 <= v.lo < Kilo and
\* 0 <= v.hi < 2^22, so that all 2^32 values are represented exactly.
Kilo == 1024
DwordBlocks == 2^22
Word(hi, lo) == [hi |-> hi, lo |-> lo]

\* DWORD addition of a small signed amount d, modulo 2^32.
AddW(v, d) ==
    Word((v.hi + ((v.lo + d) \div Kilo)) % DwordBlocks, (v.lo + d) % Kilo)

\* buffer_size % 1024
ModKilo(v) == v.lo

\* v >= w as unsigned 32-bit values.
GeqW(v, w) == v.hi > w.hi \/ (v.hi = w.hi /\ v.lo >= w.lo)

\* DWORD trunc = buffer_size % 1024; if (trunc == 0) trunc = 1024;
Trunc(h) == IF ModKilo(h) = 0 THEN Kilo ELSE ModKilo(h)

\* m_param->buffer_size = buffer_size - trunc + 1024;
StagingSize(h) == AddW(AddW(h, 0 - Trunc(h)), Kilo)

\* The hints explored: all offsets within the lowest blocks and within the
\* highest blocks of the 32-bit range.
HintBlocks == {0, 1, 2, DwordBlocks - 2, DwordBlocks - 1}
Hints == {Word(hi, lo) : hi \in HintBlocks, lo \in 0..(Kilo - 1)}

InitSize == hint = Word(0, 0) /\ sized = FALSE /\ buffer_size = Word(0, 0)

\* receiver::receiver: the computation of m_param->buffer_size.
ComputeSize ==
    /\ ~sized
    /\ sized' = TRUE
    /\ buffer_size' = StagingSize(hint)
    /\ UNCHANGED <<ovars, hint, hvars, bvars>>

\* ------------------------------------------------------------ the system
InitEngines ==
    /\ pipes = <<>>
    /\ snd = [s \in Senders |->
                [h |-> NullHandle, pc |-> "idle", n |-> 0, okgen |-> 0,
                 name |-> ChannelName]]
    /\ last = [s \in Senders |-> NoTrace]
    /\ sent = <<>>
    /\ rstate = "none"
    /\ gen = 0
    /\ ctor = NoCtor
    /\ instances = <<>>
    /\ events = <<>>
    /\ capacity = 0
    /\ callback = 1
    /\ stop_event = FALSE
    /\ pc = "off"
    /\ index = 0
    /\ bytes_read = 0
    /\ newp = 0
    /\ running = <<>>
    /\ delivered = <<>>
    /\ stray = FALSE
    /\ lastAdd = FALSE
    /\ postStop = 0

InitMain == quota \in Scenarios /\ InitEngines

Init == InitMain /\ InitSize /\ InitShell /\ InitBlock

Next ==
    \/ \E s \in Senders, len \in 1..MaxLen : Send(s, len)
    \/ \E s \in Senders : FlushDone(s)
    \/ \E s \in Senders : SenderClose(s)
    \/ \E cb \in Callbacks, created \in BOOLEAN : CtorCreate(cb, created)
    \/ CtorFinish
    \/ \E cb \in Callbacks : SetCallback(cb)
    \/ DtorBegin
    \/ DtorJoin
    \/ WorkerCheck
    \/ \E created \in BOOLEAN : WorkerWait(created)
    \/ \E nc \in GrowChoices(capacity) : WorkerAdd(nc)
    \/ WorkerSecond
    \/ WorkerCbReturn
    \/ WorkerClear
    \/ \E p \in 1..MaxPipes : AcceptFails(p)
    \/ ShellDefault
    \/ ShellMove
    \/ \E cb \in Callbacks : ShellSetCallback(cb)
    \/ ShellDestroy

Spec == Init /\ [][Next]_vars

\* The worker thread is scheduled as long as it can take a step (all its
\* calls are non-blocking or time out, and the callback is assumed to
\* return), and a satisfied wait for the worker returns.
WorkerStep ==
    \/ WorkerCheck
    \/ \E created \in BOOLEAN : WorkerWait(created)
    \/ \E nc \in GrowChoices(capacity) : WorkerAdd(nc)
    \/ WorkerSecond
    \/ WorkerCbReturn
    \/ WorkerClear

LiveSpec == Spec /\ WF_vars(WorkerStep) /\ WF_vars(DtorJoin)

\* The constructor's staging-size computation on its own, over the hints.
SizeInit ==
    /\ InitMain /\ quota.shell
    /\ hint \in Hints /\ sized = FALSE /\ buffer_size = Word(0, 0)
    /\ InitShell /\ InitBlock

\* The blocking receiver of src/win-pipe.h with one client.
BlockInit == InitMain /\ quota.shell /\ InitSize /\ InitShell /\ InitBlock

BWorkerStep ==
    \/ BCheck1
    \/ BConnectEnter
    \/ BConnectReturn
    \/ BCheck2
    \/ BReadEnter
    \/ BReadReturn
    \/ BCbReturn
    \/ BDisconnect

BlockNext ==
    \/ \E created \in BOOLEAN : BCtor(created)
    \/ \E len \in 1..MaxLen : BSend(len)
    \/ BClientClose
    \/ BDtorSet
    \/ BDtorCancel
    \/ BDtorJoin
    \/ BCheck1
    \/ BConnectEnter
    \/ BConnectReturn
    \/ BCheck2
    \/ BReadEnter
    \/ BReadReturn
    \/ BCbReturn
    \/ BDisconnect

BlockSpec == BlockInit /\ [][BlockNext]_vars

\* Construction, move construction, move assignment and destruction of two
\* receiver objects: with no sender, or with one sender and one message.
MoveScenarios ==
    {[sends |-> [s \in Senders |-> 0],
      lens |-> {1}, recv |-> MaxRecv, shell |-> TRUE, abort |-> TRUE],
     [sends |-> [s \in Senders |-> IF s = 1 THEN 1 ELSE 0],
      lens |-> {1}, recv |-> 1, shell |-> TRUE, abort |-> FALSE]}

MoveInit ==
    /\ quota \in MoveScenarios
    /\ InitEngines /\ InitSize /\ InitShell /\ InitBlock

MoveNext ==
    \/ ~Freed /\ \E s \in Senders, len \in 1..MaxLen : Send(s, len)
    \/ ~Freed /\ \E s \in Senders : FlushDone(s)
    \/ ~Freed /\ \E cb \in Callbacks, created \in BOOLEAN :
                    CtorCreate(cb, created)
    \/ ~Freed /\ CtorFinish
    \/ ~Freed /\ DtorBegin
    \/ ~Freed /\ DtorJoin
    \/ ~Freed /\ WorkerCheck
    \/ ~Freed /\ \E created \in BOOLEAN : WorkerWait(created)
    \/ ~Freed /\ \E nc \in GrowChoices(capacity) : WorkerAdd(nc)
    \/ ~Freed /\ WorkerSecond
    \/ ~Freed /\ WorkerCbReturn
    \/ ~Freed /\ WorkerClear
    \/ ~Freed /\ \E p \in 1..MaxPipes : AcceptFails(p)
    \/ ~Freed /\ ShellDefault
    \/ ~Freed /\ ShellMove
    \/ ~Freed /\ ShellDestroy
    \/ ~Freed /\ MoveAssignOntoRunning
    \/ ~Freed /\ MoveAssignOntoEmpty
    \/ DtorAssigned

MoveSpec == MoveInit /\ [][MoveNext]_vars

SizeNext == ComputeSize

SizeSpec == SizeInit /\ [][SizeNext]_vars


\* ------------------------------------------------------------ properties
\* The callback invocation d carried one whole message: exactly the bytes
\* of a message some sender wrote, with its length.
WholeMessage(d) ==
    \E i \in 1..Len(sent) :
        sent[i].bytes = d.data /\ d.n = Len(sent[i].bytes)

\* C1: every callback invocation carries exactly the bytes of one message
\* written by a successful send, with its length, and no message is the
\* subject of two invocations: messages are neither split nor truncated,
\* whatever their length.
C1_MessageIntegrity ==
    \A i \in 1..Len(delivered) :
        /\ WholeMessage(delivered[i])
        /\ \A j \in 1..Len(delivered) :
              j # i => delivered[j].data # delivered[i].data


\* The messages sender s wrote successfully, and the data of the callback
\* invocations made for its connections, both in order.
SentBy(s) ==
    LET f[i \in 0..Len(sent)] ==
            IF i = 0 THEN <<>>
            ELSE IF sent[i].s = s THEN Append(f[i - 1], sent[i].bytes)
            ELSE f[i - 1]
    IN f[Len(sent)]

DeliveredFrom(s) ==
    LET f[i \in 0..Len(delivered)] ==
            IF i = 0 THEN <<>>
            ELSE IF delivered[i].from = s
                 THEN Append(f[i - 1], delivered[i].data)
            ELSE f[i - 1]
    IN f[Len(delivered)]

IsPrefix(a, b) == Len(a) <= Len(b) /\ SubSeq(b, 1, Len(a)) = a

\* The written message m is still queued in its pipe instance.
Queued(m) ==
    \E i \in 1..Len(pipes[m.pipe].q) : pipes[m.pipe].q[i] = m.bytes

\* The written message m has been read into its slot's buffer by an
\* overlapped read whose completion the worker will still find.
Held(m) ==
    \E i \in 1..Len(instances) :
        /\ instances[i].pipe = m.pipe
        /\ instances[i].pending
        /\ SubSeq(instances[i].buf, 1, Len(m.bytes)) = m.bytes
        /\ \/ instances[i].state = "reading" /\ instances[i].ovl = "ok"
           \/ instances[i].state = "sending"

WasDelivered(m) == \E i \in 1..Len(delivered) : delivered[i].data = m.bytes

\* C2: for each sender, the callback invocations made for its messages are
\* the messages it wrote, in the order written and each at most once; a
\* message written to a live connection is delivered, still queued or
\* awaiting delivery, never dropped; and at most one invocation runs at a
\* time.
C2_SerializedDelivery ==
    /\ \A s \in Senders : IsPrefix(DeliveredFrom(s), SentBy(s))
    /\ \A i \in 1..Len(sent) :
          pipes[sent[i].pipe].srv =>
              WasDelivered(sent[i]) \/ Queued(sent[i]) \/ Held(sent[i])
    /\ Len(running) <= 1


\* The slots in the connecting state.
Connecting == {i \in 1..Len(instances) : instances[i].state = "connecting"}

\* The receiver is constructed, shutdown has not been signalled, and the
\* worker is between two passes of its loop.
BetweenPasses == rstate = "alive" /\ ~stop_event /\ pc = "check"

\* C3 as stated: once the constructor has returned with its first slot
\* created, and until shutdown is signalled, at the end of every pass the
\* pool holds at least one slot and exactly one connecting slot, whatever
\* the outcomes of slot creation.
C3_ExactlyOneConnecting ==
    BetweenPasses /\ ctor.added =>
        Len(instances) >= 1 /\ Cardinality(Connecting) = 1

\* C3 amended: at the end of every pass the pool holds at most one
\* connecting slot; it holds exactly one (and so is not empty) exactly when
\* the most recent add_pipe call returned true.
C3_ConnectingIffLastAdd ==
    BetweenPasses =>
        /\ Cardinality(Connecting) = (IF lastAdd THEN 1 ELSE 0)
        /\ lastAdd => Len(instances) >= 1

\* A pass has ended with one sender attached and a fresh connecting slot.
C3_Witness ==
    /\ BetweenPasses
    /\ lastAdd
    /\ Len(instances) >= 2
    /\ \E i \in 1..Len(instances) : instances[i].state = "reading"


\* C4: once the destructor has set the stop event, the worker finishes at
\* most the pass it is in, leaves its loop and clears the pool, and the
\* destructor's wait for the worker returns, whatever state the slots are in.
C4_DestructionTerminates ==
    /\ [](postStop <= 1)
    /\ (rstate = "dtor") ~> (rstate = "dead")

\* A destructor has returned after the worker finished the pass that was in
\* progress when the stop event was set.
C4_Witness == rstate = "dead" /\ postStop = 1


\* The k-th message of sender s was written to a receiver that is still
\* running, which has closed the connection without delivering it.
Dropped(s, k) ==
    \E i \in 1..Len(sent) :
        /\ sent[i].s = s /\ sent[i].k = k
        /\ sent[i].gen = gen /\ rstate = "alive"
        /\ ~pipes[sent[i].pipe].srv
        /\ ~WasDelivered(sent[i])

\* C5: a send issued while no receiver exists returns false after at most
\* one reconnect; a send issued once a receiver has been constructed returns
\* true, and its message is not thrown away by that receiver.
C5_NoReceiverDiscard ==
    \A s \in Senders :
        LET t == last[s]
        IN /\ t.ret # "none" /\ t.at \in {"none", "dead"} =>
                  t.ret = "false" /\ t.connects <= 1
           /\ t.ret # "none" /\ t.at = "alive" /\ quota.sends[2] = 0 =>
                  t.ret = "true" /\ ~Dropped(s, snd[s].n)

\* C6: the first send a sender issues to a newly constructed receiver, after
\* a successful send to the receiver destroyed before it, returns true, and
\* its message is not thrown away by the new receiver.
C6_ReconnectAfterRecreate ==
    \A s \in Senders :
        LET t == last[s]
        IN t.ret # "none" /\ t.at = "alive" /\ t.prev >= 1
                          /\ t.gen = t.prev + 1 =>
               t.ret = "true" /\ ~Dropped(s, snd[s].n)

\* C7: every send makes at most two write attempts and at most one
\* reconnect; it reconnects and retries exactly when the first write fails
\* with invalid-handle or pipe-not-connected; on any other first-write error
\* it returns false at once; and it returns true exactly when one of its
\* writes succeeded.
C7_SendRetryContract ==
    \A s \in Senders :
        LET t == last[s]
        IN t.e1 # "none" =>
              /\ t.writes <= 2 /\ t.connects <= 1
              /\ t.connects = 1 <=> t.e1 \in {"invalid", "notconn"}
              /\ t.writes = 2 <=> t.connects = 1
              /\ t.e1 = "ok" => t.ok
              /\ t.e1 = "other" => ~t.ok /\ t.ret = "false"
              /\ t.ret = "true" => t.ok
              /\ t.ret = "false" => ~t.ok
              /\ t.ret = "none" => t.ok

\* A send has found its handle disconnected, reconnected, retried the write
\* and returned true.
C7_Witness ==
    \E s \in Senders :
        /\ last[s].e1 = "notconn" /\ last[s].writes = 2
        /\ last[s].connects = 1 /\ last[s].ret = "true"

\* C8: a send that returns true has run FlushFileBuffers after its
\* successful write and before returning; FlushFileBuffers runs only after
\* a successful write, and a send that returns false has not run it.
C8_FlushOnSuccess ==
    \A s \in Senders :
        LET t == last[s]
        IN /\ t.ret = "true" => t.flushed /\ t.ok
           /\ t.ret = "false" => ~t.flushed
           /\ snd[s].pc = "flush" => t.ok /\ t.ret = "none" /\ ~t.flushed

\* A send has written successfully, flushed, and returned true.
C8_Witness ==
    \E s \in Senders :
        last[s].ret = "true" /\ last[s].flushed /\ last[s].ok

\* C9: when the constructor cannot create its first endpoint, it raises an
\* error to the caller and starts no worker thread.
C9_CtorFailureRaises ==
    gen >= 1 /\ rstate # "ctor" /\ ~ctor.created =>
        ctor.raised /\ ~ctor.started

\* C10: the callback is never replaced while an invocation is executing,
\* so the invocation that begins after set_callback has returned runs the
\* callback set_callback stored.
C10_CallbackStable == running # <<>> => running[1].cb = callback

\* A delivery is executing the callback installed by set_callback.
C10_Witness == running # <<>> /\ running[1].cb # Min(Callbacks)


\* The written message m is not lost: it has been handed to the callback, is
\* still queued in its pipe instance, or sits in its slot's buffer awaiting
\* the worker.
NotLost(m) == WasDelivered(m) \/ Queued(m) \/ Held(m)

\* C11: with the receiver running and the first sender attached to it, the
\* second sender's send either returns false or its message reaches the
\* callback (it is delivered, queued or awaiting delivery), and no message
\* the first sender wrote to its open connection is lost.
C11_SecondSenderHarmless ==
    /\ quota.sends[2] > 0 /\ rstate = "alive"
    /\ snd[1].h >= 1 /\ pipes[snd[1].h].link = "conn" /\ pipes[snd[1].h].srv
    => \A i \in 1..Len(sent) :
            /\ sent[i].s = 1 /\ pipes[sent[i].pipe].srv => NotLost(sent[i])
            /\ sent[i].s = 2 /\ snd[2].h = sent[i].pipe => NotLost(sent[i])

\* C12: whenever a pass ends with no connecting slot in the pool of a
\* running receiver, a later pass creates one, unless the receiver is
\* destroyed or the system can create no further instance.
C12_PoolSelfHeals ==
    (BetweenPasses /\ ctor.added /\ Connecting = {})
        ~> (Connecting # {} \/ rstate # "alive" \/ ~CanCreate(pipes))

\* C13: for every 32-bit buffer_size hint, the staging size the constructor
\* computes is at least the hint, at least 1024, and a multiple of 1024.
C13_StagingSize ==
    sized => /\ GeqW(buffer_size, hint)
             /\ GeqW(buffer_size, Word(1, 0))
             /\ ModKilo(buffer_size) = 0

\* C14: the worker leaves its multiplexer loop only after the stop event
\* has been set; a slot failure, which discards the slot, sends the worker
\* back to the head of the loop.
C14_FailureKeepsWorker ==
    /\ pc \in {"clear", "done"} => stop_event
    /\ rstate = "alive" /\ ~stop_event => pc \in {"check", "wait", "add",
                                                   "second", "cb"}

\* After a slot has been discarded because its sender went away, the worker
\* of the same receiver is delivering a message of another slot.
C14_Witness ==
    /\ gen = 1 /\ rstate = "alive" /\ ~stop_event /\ pc = "cb"
    /\ \E p \in 1..Len(pipes) : ~pipes[p].srv /\ pipes[p].link = "disc"

\* C15: on a receiver object that owns no pipe and no worker,
\* set_callback and destruction change nothing of the running receiver, and
\* destruction can always return: it waits on no worker.
C15_EmptyReceiverInert ==
    /\ [][shell' # shell => UNCHANGED ovars]_vars
    /\ [](shell.st = "empty" => ENABLED ShellDestroy)

\* A moved-from receiver has had set_callback called on it and has been
\* destroyed while the worker of the receiver moved out of it is running.
C15_Witness ==
    /\ shell.st = "gone" /\ shell.how = "moved" /\ shell.calls >= 1
    /\ rstate = "alive" /\ pc \in {"check", "wait"}

\* C16: in the blocking receiver, once the destructor has set the event
\* and cancelled the worker's synchronous I/O, the worker can always go on
\* to its exit by itself, wherever it was when the destructor ran.
C16_BlockingDestructionTerminates ==
    brstate = "wait" => bpc = "done" \/ ENABLED BWorkerStep

\* The worker takes the first switch of a pass for slot s.
FirstSwitchOn(s) ==
    /\ pc = "wait" /\ pc' # "wait"
    /\ Signalled # {}
    /\ s = instances[Min(Signalled)]
    /\ s.pending

\* The pipe p has no slot in the pool ins.
NoSlotFor(ins, p) == \A j \in 1..Len(ins) : ins[j].pipe # p

\* C17: when the accept of a connecting slot has completed with failure,
\* the pass that handles it removes the slot from the pool and the wait
\* set; it opens no new instance and does not move the slot to reading.
C17_FailedAcceptRemoves ==
    [][\A i \in 1..Len(instances) :
          /\ FirstSwitchOn(instances[i])
          /\ instances[i].state = "connecting"
          /\ pipes[instances[i].pipe].fin = "err"
          => /\ NoSlotFor(instances', instances[i].pipe)
             /\ Len(events') = Len(events) - 1
             /\ Len(pipes') = Len(pipes)]_vars

\* C18: when the read of a reading slot has completed with a failure other
\* than more-data, the first switch of the pass that handles it removes the
\* slot and ends the pass: the worker does not go on to issue another read
\* on the slot or to invoke the callback for it.
C18_FailedReadRemoves ==
    [][\A i \in 1..Len(instances) :
          /\ FirstSwitchOn(instances[i])
          /\ instances[i].state = "reading"
          /\ pipes[instances[i].pipe].fin = "err"
          => /\ NoSlotFor(instances', instances[i].pipe)
             /\ pc' = "check"
             /\ delivered' = delivered]_vars

\* C19: when a read has reported that more data remains in the message,
\* the callback is entered with the buffer grown to exactly the bytes
\* already read plus the bytes remaining, the bytes already read unchanged
\* at its front, and a length that is the sum of the two counts.
C19_GrowthStep ==
    \A i \in 1..Len(instances) :
        LET s == instances[i]
        IN running # <<>> /\ i = index /\ s.ovl = "more" =>
              /\ pipes[s.pipe].q = <<>>
              /\ running[1].n > BufSize
              /\ Len(s.buf) = running[1].n
              /\ running[1].data = s.buf

\* C20: while the callback is executing for a slot no read is outstanding
\* on that slot and its buffer does not change; when the callback returns
\* the slot is in the reading state with nothing pending, still in the pool
\* on the same endpoint, and only then can the next read be issued.
C20_DeliveryThenRead ==
    /\ [](pc = "cb" => /\ running # <<>>
                       /\ index \in 1..Len(instances)
                       /\ instances[index].pipe = running[1].pipe
                       /\ pipes[running[1].pipe].op = "none")
    /\ [][pc = "cb" /\ pc' = "cb" =>
             instances'[index].buf = instances[index].buf]_vars
    /\ [][pc = "cb" /\ pc' # "cb" =>
             /\ running' = <<>>
             /\ instances'[index].state = "reading"
             /\ ~instances'[index].pending
             /\ instances'[index].pipe = running[1].pipe
             /\ pipes'[running[1].pipe].op = "none"
             /\ pipes'[running[1].pipe].srv]_vars

\* The callback is executing for the second message of a sender on the
\* slot that delivered its first message.
C20_Witness ==
    /\ pc = "cb" /\ Len(delivered) = 2
    /\ delivered[1].pipe = delivered[2].pipe
    /\ delivered[1].data = Msg(1, 1, 1)
    /\ delivered[2].data = Msg(1, 2, 1)

\* The worker takes a step of a pass (anything between the loop condition
\* and the end of the pass).
PassStep == pc \in {"wait", "add", "second", "cb"} /\ pc' # pc

\* The endpoint of the slot the pass is servicing: the slot at the index
\* WaitForMultipleObjects returned; 0 when the wait timed out.
ServicedPipe ==
    IF pc = "wait"
    THEN IF Signalled = {} THEN 0 ELSE instances[Min(Signalled)].pipe
    ELSE instances[index].pipe

\* The slot s is found again in the pool ins with the same state, pending
\* flag, buffer and endpoint.
KeptIn(ins, s) ==
    \E k \in 1..Len(ins) :
        /\ ins[k].pipe = s.pipe /\ ins[k].state = s.state
        /\ ins[k].pending = s.pending /\ ins[k].buf = s.buf

\* C21: a pass services one slot, the one at the index the wait returned:
\* every step of the pass works on that slot, the callback is entered at
\* most once (only by the second switch, after which the pass ends), and
\* every other slot keeps its state, pending flag, buffer and endpoint; the
\* only slot a pass can add is one connecting slot at the end of the pool.
C21_OneSlotPerPass ==
    [][PassStep =>
         /\ pc' \in {"add", "second", "cb"} =>
                /\ index' \in 1..Len(instances')
                /\ instances'[index'].pipe = ServicedPipe
         /\ Len(delivered') <= Len(delivered) + 1
         /\ delivered' # delivered => pc = "second" /\ pc' = "cb"
         /\ pc = "cb" => pc' = "check" /\ delivered' = delivered
         /\ pc' = "second" => pc \in {"wait", "add"}
         /\ \A j \in 1..Len(instances) :
                instances[j].pipe # ServicedPipe =>
                    KeptIn(instances', instances[j])
         /\ \A k \in 1..Len(instances') :
                NoSlotFor(instances, instances'[k].pipe) =>
                    /\ k = Len(instances')
                    /\ Len(instances') = Len(instances) + 1
                    /\ instances'[k].state = "connecting"]_vars

\* The callback is running for one slot while the completion event of
\* another slot of the pool is signalled too: two slots were ready, one is
\* serviced.
C21_Witness ==
    /\ pc = "cb"
    /\ \E j \in 1..Len(instances) :
          /\ j # index /\ pipes[instances[j].pipe].ev
          /\ instances[j].state = "reading" /\ instances[j].pending

\* C22: when the destructor has returned, the pool and the wait set are
\* empty, and the pipe handle and the completion event of every instance
\* the receiver created, added to the pool or not, have each been closed
\* exactly once.
C22_HandlesClosedOnce ==
    rstate = "dead" =>
        /\ instances = <<>> /\ events = <<>>
        /\ \A p \in 1..Len(pipes) : pipes[p].hcl = 1 /\ pipes[p].ecl = 1

\* The endpoints of the slots of the pool ins, in order.
Endpoints(ins) == [j \in 1..Len(ins) |-> ins[j].pipe]

\* The step completes an add_pipe call whose create_instance got as far as
\* ConnectNamedPipe: in the constructor or in the worker.
AddReturns == newp # 0 /\ (rstate = "ctor" \/ pc = "add") /\ newp' = 0

\* The step is the worker's add_pipe call failing at CreateNamedPipeA.
AddFailsAtCreate ==
    /\ pc = "wait" /\ pc' # "wait" /\ Signalled # {}
    /\ instances[Min(Signalled)].pending
    /\ instances[Min(Signalled)].state = "connecting"
    /\ Len(pipes') = Len(pipes)

\* C23: the wait set and the pool grow only in an add_pipe call whose
\* endpoint was created and whose accept is pending, by exactly one
\* connecting slot on that endpoint; an add_pipe call that fails, at
\* creation or at the accept, leaves the wait set and the pool as they
\* were, reports false, and the caller (constructor or worker) carries on
\* without raising an error.
C23_AddOnlyWhenPending ==
    [][/\ Len(events') > Len(events) \/ Len(instances') > Len(instances) =>
             /\ AddReturns
             /\ pipes[newp].srv /\ pipes[newp].link = "none"
             /\ pipes'[newp].op = "connect"
             /\ events' = Append(events, newp)
             /\ Endpoints(instances') = Append(Endpoints(instances), newp)
             /\ instances'[Len(instances')].state = "connecting"
             /\ instances'[Len(instances')].pending
             /\ lastAdd'
       /\ AddReturns /\ pipes[newp].link # "none" =>
             /\ events' = events /\ instances' = instances
             /\ ~lastAdd'
             /\ ~ctor'.raised
             /\ rstate = "ctor" => rstate' = "alive" /\ pc' = "check"
             /\ pc = "add" => pc' = "second"
       /\ AddFailsAtCreate =>
             /\ events' = events
             /\ Endpoints(instances') = Endpoints(instances)
             /\ ~lastAdd'
             /\ pc' = "second"
       /\ rstate = "ctor" /\ rstate' # "ctor" /\ newp = 0 =>
             /\ events' = events /\ instances' = instances
             /\ ~lastAdd' /\ ~ctor'.raised /\ rstate' = "alive"]_vars

\* The worker's add_pipe failed because a client had attached before the
\* accept was started; the pool still holds the slot that had just been
\* accepted, and the worker goes on with it.
C23_Witness ==
    /\ rstate = "alive" /\ pc = "second" /\ ~lastAdd
    /\ Len(instances) = 1 /\ instances[1].state = "reading"
    /\ events = <<instances[1].pipe>>
    /\ \E p \in 1..Len(pipes) : pipes[p].link = "srvclosed"

\* The sequence seq without its i-th element, the others in order.
Without(seq, i) ==
    [j \in 1..(Len(seq) - 1) |-> IF j < i THEN seq[j] ELSE seq[j + 1]]

\* C24: the wait set always lists, in order, the completion events of the
\* slots of the pool; a step that removes a slot from a pool it does not
\* clear has disconnected the slot's endpoint and closed it, and takes
\* exactly that slot out of the pool and exactly its entry out of the wait
\* set, the others keeping their order; clear_pipes empties both.
C24_PoolMatchesWaitSet ==
    /\ [](Endpoints(instances) = events)
    /\ [][\A i \in 1..Len(instances) :
            NoSlotFor(instances', instances[i].pipe) /\ pc # "clear" =>
                /\ ~pipes'[instances[i].pipe].srv
                /\ pipes'[instances[i].pipe].link \notin {"conn", "cliclosed"}
                /\ pipes'[instances[i].pipe].hcl = 1
                /\ pipes'[instances[i].pipe].ecl = 1
                /\ events' = Without(events, i)
                /\ Endpoints(instances') = Without(Endpoints(instances), i)]_vars
    /\ [][pc = "clear" /\ pc' # "clear" =>
            /\ instances' = <<>> /\ events' = <<>>
            /\ \A i \in 1..Len(instances) :
                  ~pipes'[instances[i].pipe].srv]_vars

\* The first slot of a pool of two has been removed after its sender went
\* away; the slot that followed it is now the first, and so is its event.
C24_Witness ==
    /\ rstate = "alive" /\ gen = 1 /\ pc = "check"
    /\ Len(instances) = 1 /\ instances[1].pipe = 2 /\ events = <<2>>
    /\ pipes[1].link = "disc" /\ pipes[1].ecl = 1

\* Sender s makes a send call in this step.
Sends(s) == snd[s].pc = "idle" /\ snd'[s].n = snd[s].n + 1

\* C25: a send whose first write fails with an error other than
\* invalid-handle and pipe-not-connected returns false with the sender's
\* handle the one it was and no pipe instance touched (nothing closed,
\* nothing opened); and no step of a sender changes its channel name.
C25_UnrecoverableKeepsEndpoint ==
    [][\A s \in Senders :
          /\ snd'[s].name = snd[s].name
          /\ Sends(s) /\ WriteErr(pipes, snd[s].h) = "other" =>
                /\ snd'[s].h = snd[s].h
                /\ pipes' = pipes
                /\ last'[s].connects = 0 /\ last'[s].writes = 1
                /\ last'[s].ret = "false"]_vars

\* A send on a handle whose instance the receiver closed without
\* disconnecting it has failed, and the sender still holds that handle.
C25_Witness ==
    \E s \in Senders :
        /\ last[s].e1 = "other" /\ last[s].ret = "false"
        /\ snd[s].h >= 1 /\ pipes[snd[s].h].link = "srvclosed"

\* The worker thread exists and has not ended.
WorkerRuns == pc \notin {"off", "done"}

\* The step is made by a thread that calls the receiver's members: the
\* constructor, set_callback or the destructor, on either object.
CallerStep ==
    \/ rstate' # rstate \/ callback' # callback
    \/ stop_event' # stop_event \/ shell' # shell

\* C26: while the worker runs, no step of a caller of the receiver's
\* members reads or writes the pool or the wait set, and thread_param is
\* destroyed only after the worker has ended; the callback is written only
\* while no invocation holds callback_mutex, and an invocation starts only
\* by taking the free mutex and reads the callback then stored.
C26_NoUnsynchronisedAccess ==
    [][/\ CallerStep /\ WorkerRuns =>
             /\ UNCHANGED <<instances, events, capacity, index, bytes_read>>
             /\ rstate' # "dead"
       /\ callback' # callback /\ WorkerRuns =>
             running = <<>> /\ running' = <<>>
       /\ running' # running /\ running' # <<>> =>
             /\ running = <<>>
             /\ pc = "second" /\ pc' = "cb"
             /\ running'[1].cb = callback /\ callback' = callback]_vars

\* The destructor has set the stop event while the worker is inside an
\* invocation of a callback that set_callback installed.
C26_Witness ==
    /\ rstate = "dtor" /\ pc = "cb" /\ running # <<>>
    /\ callback # Min(Callbacks) /\ running[1].cb = callback

\* C27: when the worker handles a reading slot whose outstanding read the
\* system has completed with data, it finds the read completed and moves
\* the slot to delivery without starting another read, whether or not
\* slots were added to or removed from the pool while the read was
\* outstanding.
C27_ReadSurvivesPoolChange ==
    [][\A i \in 1..Len(instances) :
          /\ FirstSwitchOn(instances[i])
          /\ instances[i].state = "reading"
          /\ pipes[instances[i].pipe].fin \in {"ok", "more"}
          => /\ Len(instances') = Len(instances)
             /\ instances'[i].state = "sending"
             /\ instances'[i].buf = instances[i].buf]_vars

\* A client attached to instance p before its accept was started, and the
\* receiver gave the instance up.
GivenUp(p) == pipes[p].link = "srvclosed"

\* C28: when a sender has attached to a new instance before the accept on
\* it is started, add_pipe still puts the instance's slot into the pool
\* and keeps the instance open; no message written to such an instance is
\* thrown away undelivered; and a pass whose add_pipe met such an instance
\* still ends with a connecting slot in the pool.
C28_AttachBeforeAccept ==
    /\ [][AddReturns /\ pipes[newp].link # "none" =>
             ~NoSlotFor(instances', newp) /\ pipes'[newp].srv]_vars
    /\ [](\A i \in 1..Len(sent) :
             GivenUp(sent[i].pipe) => WasDelivered(sent[i]))
    /\ [](BetweenPasses /\ pipes # <<>> /\ GivenUp(Len(pipes)) =>
             Connecting # {})

\* C29: the thread_param a worker was started with is never destroyed
\* while that worker has not ended, whatever sequence of construction,
\* move construction, move assignment and destruction the two receiver
\* objects go through.
C29_WorkerNeverOutlivesParam == ParamDestroyed => ~WorkerRuns

\* C30: when the destructor of a receiver has returned, no invocation of
\* the callback is executing, and none is made until another receiver has
\* been constructed and its worker started.
C30_NoCallbackAfterDestruction ==
    /\ [](rstate = "dead" => running = <<>>)
    /\ [][(rstate = "dead" \/ rstate = "ctor") =>
             running' = <<>> /\ delivered' = delivered]_vars

\* The changes of pipe_state a slot can make in one step.
StateMoves ==
    {<<"connecting", "connecting">>, <<"connecting", "reading">>,
     <<"reading", "reading">>, <<"reading", "sending">>,
     <<"sending", "sending">>, <<"sending", "reading">>}

\* The first switch never finds a pending slot in the sending state, and a
\* slot's state only moves from connecting to reading, from reading to
\* sending and from sending back to reading.
SlotStateMachine ==
    \A i \in 1..Len(instances) :
        /\ FirstSwitchOn(instances[i]) =>
               instances[i].state \in {"connecting", "reading"}
        /\ \A k \in 1..Len(instances') :
               instances'[k].pipe = instances[i].pipe =>
                   <<instances[i].state, instances'[k].state>> \in StateMoves

\* C31 as stated: at the head of every pass (the loop condition and the
\* wait) no slot is in the sending state, and no slot in the sending state
\* is ever pending, so the remove_pipe branch of the first switch is never
\* taken; a slot's state only moves from connecting to reading, from
\* reading to sending and from sending back to reading, never back to
\* connecting.
C31_SendingNeverPending ==
    /\ [](\A i \in 1..Len(instances) :
             /\ pc \in {"check", "wait"} => instances[i].state # "sending"
             /\ instances[i].state = "sending" => ~instances[i].pending)
    /\ [][SlotStateMachine]_vars

\* C31 amended: at the head of every pass no slot is in the sending state;
\* a slot in the sending state is the one the current pass is servicing
\* and has no operation outstanding on its pipe (its pending flag may
\* still be set, until the callback has returned); the first switch never
\* finds a pending slot in the sending state, so its remove_pipe branch is
\* never taken; and a slot's state only moves from connecting to reading,
\* from reading to sending and from sending back to reading, never back
\* to connecting.
C31_SendingOnlyInsidePass ==
    /\ [](\A i \in 1..Len(instances) :
             /\ pc \in {"check", "wait"} => instances[i].state # "sending"
             /\ instances[i].state = "sending" =>
                    /\ pipes[instances[i].pipe].op = "none"
                    /\ pc \in {"second", "cb"} /\ i = index)
    /\ [][SlotStateMachine]_vars

\* The first switch has found the read of a slot completed and put the
\* slot into the sending state, after an earlier message was delivered; the
\* pass is about to enter the callback, the slot's pending flag still set.
C31_Witness ==
    /\ pc = "second" /\ Len(delivered) >= 1
    /\ index \in 1..Len(instances)
    /\ instances[index].state = "sending"
    /\ instances[index].pending
    /\ instances[index].pipe = delivered[1].pipe
    /\ pipes[instances[index].pipe].op = "none"

====
